---------------------------- MODULE Spec2Model ----------------------------
(***************************************************************************)
(* State-machine model of src/js/scripts.js, the page script of the        *)
(* portfolio: the typing effect (TypeWriter), the count-up animation       *)
(* (countUp), the project filter, the contact-form feedback, and the       *)
(* scroll / intersection driven features (sticky navbar, back-to-top,      *)
(* active section link, scroll reveal), the mobile drawer, and the         *)
(* DOMContentLoaded handler that sets all of them up in order.             *)
(*                                                                         *)
(* The features share no state in the script, so each one has its own      *)
(* specification over the module's variables; the variables of the other   *)
(* features stay at their initial values there.  SpecSetup is the one that *)
(* runs the page-load handler itself, on a page that may lack an element.  *)
(*                                                                         *)
(* Strings are sequences of one-character strings.  Browser events (clicks,*)
(* scrolls, intersection entries, timers coming due) are the environment:  *)
(* each handler is one atomic action, since the browser runs callbacks to  *)
(* completion one at a time.                                               *)
(***************************************************************************)
EXTENDS Integers, Sequences, FiniteSets, TLC

VARIABLES
    \* ---- 4. typing effect (TypeWriter instance and its element)
    words,            \* this.words: the parsed data-words list
    wordIndex,        \* this.wordIndex
    text,             \* this.text
    isDeleting,       \* this.isDeleting
    typedContent,     \* typedTarget.textContent, the visible text
    typeDelay,        \* delay of the pending setTimeout of type(); 0 = none pending
    typerStatus,      \* "unbuilt" | "running" | "threw"
    \* ---- 5. count-up animation (one stat element)
    statTarget,       \* <<parseInt(data-count), data-suffix>> of the element
    currentStep,      \* countUp's currentStep, one per call of countUp (run)
    statShown,        \* per run, the <<number, suffix>> its last tick wrote; <<>> = none
    statContent,      \* el.textContent as <<number, suffix>>; <<>> = the markup's text
    statTimer,        \* per run, TRUE while its setInterval timer is set
    statObserved,     \* TRUE while statsObserver observes the element
    \* ---- 7. project filter
    btnFilter,        \* data-filter of each filter button
    cardCategory,     \* data-category of each project card
    btnActive,        \* buttons carrying class "active"
    cardHidden,       \* cards carrying class "hidden"
    lastClicked,      \* the button of the latest click event; 0 = no click yet
    \* ---- 8. contact form
    formFields,       \* what the user typed into the form
    btnLabel,         \* submitBtn.innerHTML
    btnBackground,    \* submitBtn.style.background
    btnDisabled,      \* submitBtn.disabled
    resetTimers,      \* pending reset timeouts: <<remaining ms, originalLabel>>
    sinceSubmit,      \* ms since the latest submit event; -1 = none yet
    lastFormEvent,    \* "none" | "input" | "submit" | "reset" | "time"
    \* ---- 1-3, 6. scroll and intersection features
    scrollY,          \* window.scrollY
    scrollPending,    \* a scroll event is queued and not yet dispatched
    scrollDispatched, \* a scroll event has been dispatched since page load
    navScrolled,      \* navbar has class "scrolled"
    backToTopVisible, \* back-to-top button has class "visible"
    linkHref,         \* href of each nav anchor link
    linkActive,       \* nav links carrying class "active"
    lastIntersecting, \* id of the latest intersecting section entry; NoSection = none
    revealed,         \* reveal elements carrying class "revealed"
    revealObserved,   \* reveal elements revealObserver still observes
    \* ---- 1. mobile drawer
    menuOpen,         \* navMenu has class "open"
    hamburgerActive,  \* hamburger has class "active"
    bodyOverflow,     \* document.body.style.overflow
    togglesSinceClose, \* hamburger clicks since page load or the last menu-link click
    lastDrawerEvent,  \* "none" | "toggle" | "link"
    \* ---- the DOMContentLoaded handler as a whole
    present,          \* the looked-up elements that exist on the page
    wordsAttr,        \* data-words of the typing target: "valid" | "invalid" | "missing"
    loaded,           \* the DOMContentLoaded handler has run
    wired,            \* features whose listeners or observers were attached
    raised,           \* places where an uncaught error has been raised
    focus             \* the feature the visitor exercises after page load

typingVars == <<words, wordIndex, text, isDeleting, typedContent, typeDelay, typerStatus>>
countVars == <<statTarget, currentStep, statShown, statContent, statTimer, statObserved>>
filterVars == <<btnFilter, cardCategory, btnActive, cardHidden, lastClicked>>
formVars == <<formFields, btnLabel, btnBackground, btnDisabled, resetTimers,
              sinceSubmit, lastFormEvent>>
pageVars == <<scrollY, scrollPending, scrollDispatched, navScrolled, backToTopVisible, linkHref,
              linkActive, lastIntersecting, revealed, revealObserved>>
drawerVars == <<menuOpen, hamburgerActive, bodyOverflow, togglesSinceClose, lastDrawerEvent>>
setupVars == <<present, wordsAttr, loaded, wired, raised, focus>>
vars == <<typingVars, countVars, filterVars, formVars, pageVars, drawerVars, setupVars>>

(***************************************************************************)
(* Bounds of the model.                                                    *)
(***************************************************************************)
MaxWords == 2         \* longest word list
MaxWordLen == 2       \* longest word
MaxWordIndex == 4     \* type() ticks are explored while wordIndex <= MaxWordIndex

MaxEntries == 3       \* entries in one IntersectionObserver callback

Alphabet == {"a", "b"}

Min(a, b) == IF a <= b THEN a ELSE b
Max(a, b) == IF a >= b THEN a ELSE b

\* The batches the browser can hand to a callback: 1..MaxEntries entries
\* <<target, isIntersecting>>, each for one of `targets`; a target can occur
\* more than once in a batch.
EntryBatches(targets) ==
    UNION {[1..k -> targets \X BOOLEAN] : k \in 1..MaxEntries}

(***************************************************************************)
(* 4. TYPING EFFECT                                                        *)
(***************************************************************************)
SeqsUpTo(S, n) == UNION {[1..k -> S] : k \in 0..n}

Words == SeqsUpTo(Alphabet, MaxWordLen)
WordLists == SeqsUpTo(Words, MaxWords)

\* String.prototype.substring(0, end): end is clamped to [0, length].
Substring0(s, end) == SubSeq(s, 1, Min(Max(end, 0), Len(s)))

\* this.words[this.wordIndex % this.words.length], for a non-empty list
\* (sequences are 1-based, arrays 0-based).
CurrentWord(ws, wi) == ws[(wi % Len(ws)) + 1]

GrowShrinkOtherWord(ws, wi, t, del) ==
    IF del THEN Substring0(CurrentWord(ws, wi + 1), Len(t) - 1)
           ELSE Substring0(CurrentWord(ws, wi), Len(t) + 1)

\* Lines 173-177: grow or shrink this.text by one character.
GrowShrink(ws, wi, t, del) ==
    IF del THEN Substring0(CurrentWord(ws, wi), Len(t) - 1)
           ELSE Substring0(CurrentWord(ws, wi), Len(t) + 1)

TypeDelay == 100
DeleteDelay == 50
WaitTime == 2000
NextWordGap == 400

PhaseSkipWord(ws, wi, t, del) ==
    LET cw == CurrentWord(ws, wi)
        d0 == IF del THEN DeleteDelay ELSE TypeDelay
    IN  IF ~del /\ t = cw
          THEN [isDeleting |-> TRUE, wordIndex |-> wi, delay |-> WaitTime]
        ELSE IF del /\ t = <<>>
          THEN [isDeleting |-> FALSE, wordIndex |-> wi + 2, delay |-> NextWordGap]
        ELSE [isDeleting |-> del, wordIndex |-> wi, delay |-> d0]

PhaseSwappedDelays(ws, wi, t, del) ==
    LET cw == CurrentWord(ws, wi)
        d0 == IF del THEN TypeDelay ELSE DeleteDelay
    IN  IF ~del /\ t = cw
          THEN [isDeleting |-> TRUE, wordIndex |-> wi, delay |-> WaitTime]
        ELSE IF del /\ t = <<>>
          THEN [isDeleting |-> FALSE, wordIndex |-> wi + 1, delay |-> NextWordGap]
        ELSE [isDeleting |-> del, wordIndex |-> wi, delay |-> d0]

PhaseStopsAfterWord(ws, wi, t, del) ==
    LET cw == CurrentWord(ws, wi)
        d0 == IF del THEN DeleteDelay ELSE TypeDelay
    IN  IF ~del /\ t = cw
          THEN [isDeleting |-> TRUE, wordIndex |-> wi, delay |-> WaitTime]
        ELSE IF del /\ t = <<>>
          THEN [isDeleting |-> FALSE, wordIndex |-> wi + 1, delay |-> 0]
        ELSE [isDeleting |-> del, wordIndex |-> wi, delay |-> d0]

\* Lines 183-194: the delay and the phase change, from the text just written
\* (t) and the flags as they were on entry.
Phase(ws, wi, t, del) ==
    LET cw == CurrentWord(ws, wi)
        d0 == IF del THEN DeleteDelay ELSE TypeDelay
    IN  IF ~del /\ t = cw
          THEN [isDeleting |-> TRUE, wordIndex |-> wi, delay |-> WaitTime]
        ELSE IF del /\ t = <<>>
          THEN [isDeleting |-> FALSE, wordIndex |-> wi + 1, delay |-> NextWordGap]
        ELSE [isDeleting |-> del, wordIndex |-> wi, delay |-> d0]

\* TypeWriter.type(), lines 168-198, on the fields (ws, wi, t, del).  With an
\* empty list words[0 % 0] is undefined and .substring throws a TypeError
\* before anything is written or scheduled.
TypeBody(ws, wi, t, del) ==
    IF Len(ws) = 0
      THEN /\ typerStatus' = "threw"
           /\ text' = t /\ isDeleting' = del /\ wordIndex' = wi
           /\ typeDelay' = 0
           /\ UNCHANGED typedContent
      ELSE LET t2 == GrowShrink(ws, wi, t, del)
               p == Phase(ws, wi, t2, del)
           IN  /\ typerStatus' = "running"
               /\ text' = t2
               /\ typedContent' = t2
               /\ isDeleting' = p.isDeleting
               /\ wordIndex' = p.wordIndex
               /\ typeDelay' = p.delay

\* new TypeWriter(typedTarget, words, 2000), lines 158-166 and 204-207:
\* the constructor sets the fields and calls type() once.
NewTypeWriter ==
    /\ typerStatus = "unbuilt"
    /\ TypeBody(words, 0, <<>>, FALSE)
    /\ UNCHANGED <<words, countVars, filterVars, formVars, pageVars, drawerVars, setupVars>>

\* The setTimeout callback of line 197 comes due: type() runs again.
TypeTick ==
    /\ typerStatus = "running"
    /\ typeDelay > 0
    /\ wordIndex <= MaxWordIndex
    /\ TypeBody(words, wordIndex, text, isDeleting)
    /\ UNCHANGED <<words, countVars, filterVars, formVars, pageVars, drawerVars, setupVars>>

\* type() again, for the endless run.  type() reads wordIndex only through
\* wordIndex % words.length (line 170), so this action keeps the residue of
\* the counter in place of the counter: the run of the effect is then a
\* finite graph, with the same words, texts, flags and delays in it.
TypeTickResidue ==
    /\ typerStatus = "running"
    /\ typeDelay > 0
    /\ LET t2 == GrowShrink(words, wordIndex, text, isDeleting)
           p == Phase(words, wordIndex, t2, isDeleting)
       IN  /\ text' = t2
           /\ typedContent' = t2
           /\ isDeleting' = p.isDeleting
           /\ wordIndex' = p.wordIndex % Len(words)
           /\ typeDelay' = p.delay
    /\ UNCHANGED <<words, typerStatus>>
    /\ UNCHANGED <<countVars, filterVars, formVars, pageVars, drawerVars, setupVars>>

TypingInit ==
    /\ words \in WordLists
    /\ wordIndex = 0
    /\ text = <<>>
    /\ isDeleting = FALSE
    /\ typedContent = <<>>
    /\ typeDelay = 0
    /\ typerStatus = "unbuilt"

TypingIdle ==
    /\ words = <<>>
    /\ wordIndex = 0
    /\ text = <<>>
    /\ isDeleting = FALSE
    /\ typedContent = <<>>
    /\ typeDelay = 0
    /\ typerStatus = "unbuilt"

(***************************************************************************)
(* 5. STATS COUNTER                                                        *)
(***************************************************************************)
MaxTarget == 70       \* largest data-count
MaxNegTarget == 3     \* data-count goes down to -MaxNegTarget

Targets == (0 - MaxNegTarget)..MaxTarget
Suffixes == {"", "+"}

Steps == 60

\* Math.round((target / steps) * currentStep).  Math.round rounds a half up
\* (towards +Infinity): floor(x + 1/2).  The operand is an IEEE-754 double:
\* target/steps is rounded before the product is taken, so where the exact
\* product is an integer plus one half the double may be just below the half
\* and round one lower.  Both outcomes are admitted there.
RoundedProduct(target, step) ==
    LET up == (target * step * 2 + Steps) \div (2 * Steps)
    IN  IF (target * step * 2) % (2 * Steps) = Steps THEN {up, up - 1} ELSE {up}

StepValuesCountDown(target, step) ==
    {Min(r, target) : r \in RoundedProduct(target, Steps - step)}

StepValuesNoMin(target, step) == RoundedProduct(target, step)

\* Line 234: Math.min(Math.round((target / steps) * currentStep), target).
StepValues(target, step) ==
    {Min(r, target) : r \in RoundedProduct(target, step)}

RunDoneLate(step) == step > Steps

\* Line 237: currentStep >= steps.
RunDone(step) == step >= Steps

\* The stat element, as the target of the entries statsObserver gets.
StatEl == "stat"

\* countUp(el), lines 223-231.  Every call has its own currentStep and its
\* own interval timer: a run is appended to the runs of the element.
CountUp(st) ==
    [st EXCEPT !.steps = Append(@, 0),
               !.timers = Append(@, TRUE),
               !.shown = Append(@, <<>>)]

\* Lines 250-254, one entry: a non-intersecting entry is skipped; otherwise
\* countUp(entry.target) is called and the target is unobserved.
StatsEntry(st, entry) ==
    IF entry[2] THEN [CountUp(st) EXCEPT !.observed = FALSE] ELSE st

RECURSIVE StatsEntries(_, _)
\* entries.forEach of line 250.
StatsEntries(st, entries) ==
    IF entries = <<>> THEN st
    ELSE StatsEntries(StatsEntry(st, Head(entries)), Tail(entries))

\* The statsObserver callback, lines 249-255, on one batch of entries.  The
\* browser queues entries only for a target that is observed; the entries
\* queued before unobserve is called all arrive in the same batch.
StatsCallback ==
    /\ statObserved
    /\ \E entries \in EntryBatches({StatEl}) :
          LET st == StatsEntries([steps |-> currentStep, timers |-> statTimer,
                                  shown |-> statShown, observed |-> statObserved],
                                 entries)
          IN  /\ currentStep' = st.steps
              /\ statTimer' = st.timers
              /\ statShown' = st.shown
              /\ statObserved' = st.observed
    /\ UNCHANGED <<statTarget, statContent>>
    /\ UNCHANGED <<typingVars, filterVars, formVars, pageVars, drawerVars, setupVars>>

\* The setInterval callback of run i, lines 231-242.  statContent is the
\* pair <<number, suffix>> that the concatenation value + suffix writes.
\* The runs of the element were all started by one callback with the same
\* interval, so their timers come due together and fire in creation order:
\* run i ticks when the runs before it have ticked and the later ones not.
CountTick ==
    \E i \in 1..Len(currentStep) :
        /\ statTimer[i]
        /\ \A j \in 1..Len(currentStep) :
              currentStep[j] = IF j < i THEN currentStep[i] + 1 ELSE currentStep[i]
        /\ currentStep' = [currentStep EXCEPT ![i] = @ + 1]
        /\ \E value \in StepValues(statTarget[1], currentStep[i] + 1) :
              LET written == IF RunDone(currentStep[i] + 1)
                               THEN <<statTarget[1], statTarget[2]>>
                               ELSE <<value, statTarget[2]>>
              IN  /\ statContent' = written
                  /\ statShown' = [statShown EXCEPT ![i] = written]
                  /\ statTimer' = [statTimer EXCEPT ![i] = ~RunDone(currentStep[i] + 1)]
        /\ UNCHANGED <<statTarget, statObserved>>
        /\ UNCHANGED <<typingVars, filterVars, formVars, pageVars, drawerVars, setupVars>>

\* statTarget is the pair <<data-count, data-suffix>> of the element.  No
\* run has been started.
CountInit ==
    /\ statTarget \in Targets \X Suffixes
    /\ currentStep = <<>>
    /\ statShown = <<>>
    /\ statContent = <<>>
    /\ statTimer = <<>>
    /\ statObserved = TRUE

CountIdle ==
    /\ statTarget = <<0, "">>
    /\ currentStep = <<>>
    /\ statShown = <<>>
    /\ statContent = <<>>
    /\ statTimer = <<>>
    /\ statObserved = TRUE

(***************************************************************************)
(* 7. PROJECT FILTER                                                       *)
(***************************************************************************)
NumButtons == 2       \* filter buttons on the page
NumCards == 2         \* project cards on the page

Buttons == 1..NumButtons
Cards == 1..NumCards

\* getAttribute returns null for a button without data-filter.
NullAttr == "<null>"
FilterValues == {"all", "web", "mobile", NullAttr}
\* Cards are selected by .project-card[data-category]: the attribute is there.
Categories == {"web", "mobile", "design"}

\* The classes the page's markup (index.html) gives the controls before any
\* event: at most one control is marked active.
AtMostOneOf(S) == {A \in SUBSET S : Cardinality(A) <= 1}

ActivateKeepOthers(active, btn) == active \cup {btn}

\* Lines 290-291: remove "active" from every button, add it to the clicked one.
Activate(active, btn) == (active \ Buttons) \cup {btn}

\* Line 299: selectedFilter === 'all' || cardCategory === selectedFilter.
ShouldShow(selectedFilter, category) ==
    selectedFilter = "all" \/ category = selectedFilter

HideOnlyAdds(hidden, selectedFilter) ==
    hidden \cup {c \in Cards : ~ShouldShow(selectedFilter, cardCategory[c])}

\* Lines 296-301: classList.toggle('hidden', !shouldShow) on every card.
Hide(hidden, selectedFilter) ==
    {c \in Cards : ~ShouldShow(selectedFilter, cardCategory[c])}

\* The click handler of one filter button, lines 288-302.
FilterClick ==
    \E btn \in Buttons :
        /\ btnActive' = Activate(btnActive, btn)
        /\ cardHidden' = Hide(cardHidden, btnFilter[btn])
        /\ lastClicked' = btn
        /\ UNCHANGED <<btnFilter, cardCategory>>
        /\ UNCHANGED <<typingVars, countVars, formVars, pageVars, drawerVars, setupVars>>

FilterInit ==
    /\ btnFilter \in [Buttons -> FilterValues]
    /\ cardCategory \in [Cards -> Categories]
    /\ btnActive \in AtMostOneOf(Buttons)
    /\ cardHidden \in SUBSET Cards
    /\ lastClicked = 0

FilterIdle ==
    /\ btnFilter = [b \in Buttons |-> "all"]
    /\ cardCategory = [c \in Cards |-> "web"]
    /\ btnActive = {}
    /\ cardHidden = {}
    /\ lastClicked = 0

(***************************************************************************)
(* 8. CONTACT FORM                                                         *)
(***************************************************************************)
MaxPending == 2       \* reset timeouts pending at once
TimeStep == 500       \* largest amount of time that passes in one step, ms

ResetDelay == 2500

MarkupLabel == "Send Message"
SentLabel == "Sent!"
SentBackground == "linear-gradient"
FieldContents == {<<>>, <<"a">>}

\* The submit handler, lines 311-330.  Nothing in it looks at the fields or
\* at whether an earlier reset is still pending.
FormSubmit ==
    /\ Len(resetTimers) < MaxPending
    /\ btnLabel' = SentLabel
    /\ btnBackground' = SentBackground
    /\ btnDisabled' = TRUE
    /\ resetTimers' = Append(resetTimers, <<ResetDelay, btnLabel>>)
    /\ sinceSubmit' = 0
    /\ lastFormEvent' = "submit"
    /\ UNCHANGED formFields
    /\ UNCHANGED <<typingVars, countVars, filterVars, pageVars, drawerVars, setupVars>>

\* The user edits the fields.
FormInput ==
    /\ \E f \in FieldContents : f # formFields /\ formFields' = f
    /\ lastFormEvent' = "input"
    /\ UNCHANGED <<btnLabel, btnBackground, btnDisabled, resetTimers, sinceSubmit>>
    /\ UNCHANGED <<typingVars, countVars, filterVars, pageVars, drawerVars, setupVars>>

\* The setTimeout callback of lines 324-329, when its 2500ms have passed.
\* All timeouts have the same delay, so they come due in creation order.
FormReset ==
    /\ resetTimers # <<>>
    /\ Head(resetTimers)[1] = 0
    /\ btnLabel' = Head(resetTimers)[2]
    /\ btnBackground' = ""
    /\ btnDisabled' = FALSE
    /\ formFields' = <<>>
    /\ resetTimers' = Tail(resetTimers)
    /\ lastFormEvent' = "reset"
    /\ UNCHANGED sinceSubmit
    /\ UNCHANGED <<typingVars, countVars, filterVars, pageVars, drawerVars, setupVars>>

\* Time passes, up to the moment the next timeout comes due.  sinceSubmit
\* stops counting one step past the delay.
FormTime ==
    /\ resetTimers # <<>> => Head(resetTimers)[1] > 0
    /\ sinceSubmit >= 0
    /\ sinceSubmit <= ResetDelay
    /\ LET d == IF resetTimers = <<>> THEN TimeStep
                ELSE Min(TimeStep, Head(resetTimers)[1])
       IN  /\ resetTimers' = [i \in 1..Len(resetTimers) |->
                                <<resetTimers[i][1] - d, resetTimers[i][2]>>]
           /\ sinceSubmit' = sinceSubmit + d
    /\ lastFormEvent' = "time"
    /\ UNCHANGED <<formFields, btnLabel, btnBackground, btnDisabled>>
    /\ UNCHANGED <<typingVars, countVars, filterVars, pageVars, drawerVars, setupVars>>

FormInit ==
    /\ formFields \in FieldContents
    /\ btnLabel = MarkupLabel
    /\ btnBackground = ""
    /\ btnDisabled = FALSE
    /\ resetTimers = <<>>
    /\ sinceSubmit = -1
    /\ lastFormEvent = "none"

FormIdle ==
    /\ formFields = <<>>
    /\ btnLabel = MarkupLabel
    /\ btnBackground = ""
    /\ btnDisabled = FALSE
    /\ resetTimers = <<>>
    /\ sinceSubmit = -1
    /\ lastFormEvent = "none"

(***************************************************************************)
(* 1, 6. STICKY NAVBAR AND BACK-TO-TOP                                     *)
(***************************************************************************)
NavThreshold == 50
TopThreshold == 500

\* Scroll offsets around the two thresholds.
ScrollOffsets == {0, NavThreshold - 1, NavThreshold, NavThreshold + 1,
                  TopThreshold - 1, TopThreshold, TopThreshold + 1}

AddNavScrollClassAtThreshold(y) == y >= NavThreshold

\* addNavScrollClass(), lines 36-42: whether the navbar carries "scrolled"
\* after the call.
AddNavScrollClass(y) == y > NavThreshold

BackToTopToggleAtThreshold(y) == y >= TopThreshold

\* Line 271: classList.toggle('visible', window.scrollY > 500).
BackToTopToggle(y) == y > TopThreshold

\* The user (or a script) moves the viewport; the browser queues a scroll
\* event for the next frame.
ScrollTo ==
    /\ \E y \in ScrollOffsets : y # scrollY /\ scrollY' = y
    /\ scrollPending' = TRUE
    /\ UNCHANGED <<scrollDispatched, navScrolled, backToTopVisible, linkHref, linkActive,
                   lastIntersecting, revealed, revealObserved>>
    /\ UNCHANGED <<typingVars, countVars, filterVars, formVars, drawerVars, setupVars>>

\* The scroll event is dispatched: both listeners run, in the order they
\* were added (lines 51 and 267).
ScrollEvent ==
    /\ scrollPending
    /\ navScrolled' = AddNavScrollClass(scrollY)
    /\ backToTopVisible' = BackToTopToggle(scrollY)
    /\ scrollPending' = FALSE
    /\ scrollDispatched' = TRUE
    /\ UNCHANGED <<scrollY, linkHref, linkActive, lastIntersecting, revealed,
                   revealObserved>>
    /\ UNCHANGED <<typingVars, countVars, filterVars, formVars, drawerVars, setupVars>>

(***************************************************************************)
(* 3. SCROLL REVEAL                                                        *)
(***************************************************************************)
NumReveal == 2        \* reveal-tagged elements on the page

RevealEls == 1..NumReveal

RevealEntryToggles(st, entry) ==
    [revealed |-> IF entry[2] THEN st.revealed \cup {entry[1]}
                  ELSE st.revealed \ {entry[1]},
     observed |-> st.observed]

\* Lines 130-134, one entry: a non-intersecting entry is skipped; otherwise
\* the target gets "revealed" and is unobserved.
RevealEntry(st, entry) ==
    IF entry[2]
      THEN [revealed |-> st.revealed \cup {entry[1]},
            observed |-> st.observed \ {entry[1]}]
      ELSE st

RECURSIVE RevealEntries(_, _)
\* entries.forEach of line 130.
RevealEntries(st, entries) ==
    IF entries = <<>> THEN st
    ELSE RevealEntries(RevealEntry(st, Head(entries)), Tail(entries))

\* The revealObserver callback, lines 129-134, on one batch of entries for
\* targets that are observed when the batch is handed over.
RevealCallback ==
    /\ \E entries \in EntryBatches(revealObserved) :
          LET st == RevealEntries([revealed |-> revealed,
                                   observed |-> revealObserved], entries)
          IN  /\ revealed' = st.revealed
              /\ revealObserved' = st.observed
    /\ UNCHANGED <<scrollY, scrollPending, scrollDispatched, navScrolled, backToTopVisible,
                   linkHref, linkActive, lastIntersecting>>
    /\ UNCHANGED <<typingVars, countVars, filterVars, formVars, drawerVars, setupVars>>

(***************************************************************************)
(* 2. ACTIVE NAV LINK                                                      *)
(***************************************************************************)
NumLinks == 3         \* nav anchor links
NumSections == 3      \* sections with an id

Links == 1..NumLinks
SectionIds == 1..NumSections
NoSection == 0

\* '#' + entry.target.id
Hash(id) == <<"#", id>>

\* The hrefs the markup (index.html) gives the nav links: each starts with
\* '#' (the selector a[href^="#"]) and names a section, or an anchor that is
\* no section (NoSection); no two links share an href.
LinkHrefs ==
    {h \in [Links -> {Hash(id) : id \in SectionIds \cup {NoSection}}] :
        \A l1, l2 \in Links : h[l1] = h[l2] => l1 = l2}

SectionEntryOnlyAdds(st, entry) ==
    IF entry[2]
      THEN [active |-> st.active \cup {l \in Links : linkHref[l] = Hash(entry[1])},
            last |-> entry[1]]
      ELSE st

\* Lines 99-108, one entry: a non-intersecting entry is skipped; otherwise
\* every link gets toggle('active', href === '#' + id).
SectionEntry(st, entry) ==
    IF entry[2]
      THEN [active |-> {l \in Links : linkHref[l] = Hash(entry[1])},
            last |-> entry[1]]
      ELSE st

RECURSIVE SectionEntries(_, _)
\* entries.forEach of line 99.
SectionEntries(st, entries) ==
    IF entries = <<>> THEN st
    ELSE SectionEntries(SectionEntry(st, Head(entries)), Tail(entries))

\* The activeSectionObserver callback, lines 98-108, on one batch of
\* entries.  lastIntersecting records the id of the last intersecting entry
\* processed.
SectionCallback ==
    /\ \E entries \in EntryBatches(SectionIds) :
          LET st == SectionEntries([active |-> linkActive,
                                    last |-> lastIntersecting], entries)
          IN  /\ linkActive' = st.active
              /\ lastIntersecting' = st.last
    /\ UNCHANGED <<scrollY, scrollPending, scrollDispatched, navScrolled, backToTopVisible,
                   linkHref, revealed, revealObserved>>
    /\ UNCHANGED <<typingVars, countVars, filterVars, formVars, drawerVars, setupVars>>

\* After setup: addNavScrollClass() has run once (line 46), every reveal
\* element is observed (line 140), and no callback has run yet.
ScrollInit ==
    /\ scrollY \in ScrollOffsets
    /\ scrollPending = FALSE
    /\ scrollDispatched = FALSE
    /\ navScrolled = AddNavScrollClass(scrollY)
    /\ backToTopVisible = FALSE
    /\ revealed = {}
    /\ revealObserved = RevealEls

ScrollIdle ==
    /\ scrollY = 0
    /\ scrollPending = FALSE
    /\ scrollDispatched = FALSE
    /\ navScrolled = AddNavScrollClass(0)
    /\ backToTopVisible = FALSE
    /\ revealed = {}
    /\ revealObserved = RevealEls

SectionsInit ==
    /\ linkHref \in LinkHrefs
    /\ linkActive \in AtMostOneOf(Links)
    /\ lastIntersecting = NoSection

SectionsIdle ==
    /\ linkHref = [l \in Links |-> Hash(l)]
    /\ linkActive = {}
    /\ lastIntersecting = NoSection

(***************************************************************************)
(* 1. MOBILE DRAWER                                                        *)
(***************************************************************************)
MaxToggles == 3       \* hamburger clicks explored between two menu-link clicks

DrawerToggleOverflowInverted(open) ==
    [menuOpen |-> ~open,
     hamburgerActive |-> ~open,
     bodyOverflow |-> IF ~open THEN "" ELSE "hidden"]

\* Lines 63-66: isOpen is what navMenu.classList.toggle('open') returns, the
\* new state; the other two flags are set from it.
DrawerToggle(open) ==
    [menuOpen |-> ~open,
     hamburgerActive |-> ~open,
     bodyOverflow |-> IF ~open THEN "hidden" ELSE ""]

\* The hamburger click handler, lines 62-67.
HamburgerClick ==
    /\ togglesSinceClose < MaxToggles
    /\ LET d == DrawerToggle(menuOpen)
       IN  /\ menuOpen' = d.menuOpen
           /\ hamburgerActive' = d.hamburgerActive
           /\ bodyOverflow' = d.bodyOverflow
    /\ togglesSinceClose' = togglesSinceClose + 1
    /\ lastDrawerEvent' = "toggle"
    /\ UNCHANGED <<typingVars, countVars, filterVars, formVars, pageVars, setupVars>>

\* The click handler of a nav link, lines 71-75.
MenuLinkClick ==
    /\ menuOpen' = FALSE
    /\ hamburgerActive' = FALSE
    /\ bodyOverflow' = ""
    /\ togglesSinceClose' = 0
    /\ lastDrawerEvent' = "link"
    /\ UNCHANGED <<typingVars, countVars, filterVars, formVars, pageVars, setupVars>>

\* The closed drawer of the page as loaded.
DrawerIdle ==
    /\ menuOpen = FALSE
    /\ hamburgerActive = FALSE
    /\ bodyOverflow = ""
    /\ togglesSinceClose = 0
    /\ lastDrawerEvent = "none"

(***************************************************************************)
(* The DOMContentLoaded handler, lines 20-332: the features are set up one *)
(* after the other by one function.                                        *)
(***************************************************************************)
\* The elements the handler looks up (lines 24-26, 203, 213, 263, 278-279,
\* 308, 315).
Elements == {"navbar", "hamburger", "navMenu", "typedTarget", "statElements",
             "backToTopBtn", "filterButtons", "projectCards", "contactForm",
             "submitBtn"}

\* The sections of the handler, in the order of the source.
SetupOrder == <<"navbar", "drawer", "sections", "reveal", "typing", "stats",
                "backToTop", "filter", "form">>
Features == {SetupOrder[k] : k \in 1..Len(SetupOrder)}

\* The elements a feature reads or writes, at setup or in its handlers.
Uses(f) ==
    CASE f = "navbar" -> {"navbar"}
      [] f = "drawer" -> {"hamburger", "navMenu"}
      [] f = "typing" -> {"typedTarget"}
      [] f = "stats" -> {"statElements"}
      [] f = "backToTop" -> {"backToTopBtn"}
      [] f = "filter" -> {"filterButtons", "projectCards"}
      [] f = "form" -> {"contactForm", "submitBtn"}
      [] OTHER -> {}

\* The elements whose existence the handler tests before it attaches the
\* feature: lines 61, 204, 245, 265, 310; filterButtons.forEach (line 287)
\* attaches nothing when there is no button.  Nothing tests navbar, and
\* nothing tests the submit button (line 315).
Guards(f) ==
    CASE f = "drawer" -> {"hamburger", "navMenu"}
      [] f = "typing" -> {"typedTarget"}
      [] f = "stats" -> {"statElements"}
      [] f = "backToTop" -> {"backToTopBtn"}
      [] f = "filter" -> {"filterButtons"}
      [] f = "form" -> {"contactForm"}
      [] OTHER -> {}

\* The error a section raises while it is set up, "none" if it raises none.
\*  - navbar: addNavScrollClass() is called at line 46 and dereferences
\*    navbar in both branches (lines 38 and 40);
\*  - typing: JSON.parse throws on an invalid value (line 205); a missing
\*    attribute parses to null and a valid empty list gives words[0 % 0],
\*    and then type(), called by the constructor, throws (lines 170-174).
StepError(f) ==
    IF f = "navbar" /\ "navbar" \notin present THEN "navbar"
    ELSE IF f = "typing" /\ "typedTarget" \in present /\ wordsAttr = "invalid" THEN "parse"
    ELSE IF f = "typing" /\ "typedTarget" \in present
            /\ (wordsAttr = "missing" \/ Len(words) = 0) THEN "type"
    ELSE "none"

SetupStepKeepsGoing(f, st) ==
    IF StepError(f) # "none" THEN [st EXCEPT !.raised = @ \cup {StepError(f)}]
    ELSE IF Guards(f) \subseteq present THEN [st EXCEPT !.wired = @ \cup {f}]
    ELSE st

\* One section of the handler.  Nothing catches an error, so once one has
\* been raised the rest of the handler does not run.
SetupStep(f, st) ==
    IF st.raised # {} THEN st
    ELSE IF StepError(f) # "none" THEN [st EXCEPT !.raised = {StepError(f)}]
    ELSE IF Guards(f) \subseteq present THEN [st EXCEPT !.wired = @ \cup {f}]
    ELSE st

\* The sections from the k-th on.
RECURSIVE Setup(_, _)
Setup(k, st) ==
    IF k > Len(SetupOrder) THEN st
    ELSE Setup(k + 1, SetupStep(SetupOrder[k], st))

\* The page-load event: the whole handler runs.  Besides attaching the
\* features it calls addNavScrollClass() once (line 46) and constructs the
\* TypeWriter (line 206), whose constructor calls type().
PageLoad ==
    /\ ~loaded
    /\ LET st == Setup(1, [wired |-> {}, raised |-> {}])
       IN  /\ loaded' = TRUE
           /\ wired' = st.wired
           /\ raised' = st.raised
    /\ navScrolled' = IF "navbar" \in present THEN AddNavScrollClass(scrollY)
                      ELSE navScrolled
    /\ IF "navbar" \in present /\ "typedTarget" \in present /\ wordsAttr = "valid"
         THEN TypeBody(words, 0, <<>>, FALSE)
       ELSE IF "navbar" \in present /\ "typedTarget" \in present /\ wordsAttr = "missing"
         THEN /\ typerStatus' = "threw"
              /\ UNCHANGED <<wordIndex, text, isDeleting, typedContent, typeDelay>>
       ELSE UNCHANGED <<wordIndex, text, isDeleting, typedContent, typeDelay, typerStatus>>
    /\ UNCHANGED <<words, present, wordsAttr, focus>>
    /\ UNCHANGED <<scrollY, scrollPending, scrollDispatched, backToTopVisible, linkHref,
                   linkActive, lastIntersecting, revealed, revealObserved>>
    /\ UNCHANGED <<countVars, filterVars, formVars, drawerVars>>

\* The events after page load.  An event runs the listeners that were
\* attached; where none was attached nothing runs.

LoadedScrollTo == loaded /\ focus = "scroll" /\ ScrollTo

\* The scroll event: addNavScrollClass (line 51) and the back-to-top
\* listener (line 267), each if it was attached.
LoadedScrollEvent ==
    /\ loaded
    /\ focus = "scroll"
    /\ scrollPending
    /\ navScrolled' = IF "navbar" \in wired THEN AddNavScrollClass(scrollY)
                      ELSE navScrolled
    /\ backToTopVisible' = IF "backToTop" \in wired THEN BackToTopToggle(scrollY)
                           ELSE backToTopVisible
    /\ scrollPending' = FALSE
    /\ scrollDispatched' = TRUE
    /\ UNCHANGED <<scrollY, linkHref, linkActive, lastIntersecting, revealed,
                   revealObserved>>
    /\ UNCHANGED <<typingVars, countVars, filterVars, formVars, drawerVars, setupVars>>

LoadedHamburgerClick ==
    /\ loaded
    /\ focus = "drawer"
    /\ "hamburger" \in present
    /\ IF "drawer" \in wired THEN HamburgerClick ELSE UNCHANGED vars

LoadedMenuLinkClick ==
    /\ loaded
    /\ focus = "drawer"
    /\ IF "drawer" \in wired THEN MenuLinkClick ELSE UNCHANGED vars

LoadedTypeTick == loaded /\ focus = "typing" /\ TypeTick

\* statsObserver exists only if it was constructed (line 249).
LoadedStatsCallback ==
    /\ loaded
    /\ focus = "stats"
    /\ "statElements" \in present
    /\ IF "stats" \in wired THEN StatsCallback ELSE UNCHANGED vars

LoadedCountTick == loaded /\ focus = "stats" /\ CountTick

\* A click on a filter button.  Without project cards the loop of lines
\* 296-301 has nothing to go over.
LoadedFilterClick ==
    /\ loaded
    /\ focus = "filter"
    /\ "filterButtons" \in present
    /\ IF "filter" \notin wired THEN UNCHANGED vars
       ELSE IF "projectCards" \in present THEN FilterClick
       ELSE /\ \E btn \in Buttons :
                 /\ btnActive' = Activate(btnActive, btn)
                 /\ lastClicked' = btn
            /\ UNCHANGED <<btnFilter, cardCategory, cardHidden>>
            /\ UNCHANGED <<typingVars, countVars, formVars, pageVars, drawerVars, setupVars>>

\* A submit event on the form.  Without a submit button line 316
\* dereferences null and the handler ends there.
LoadedSubmit ==
    /\ loaded
    /\ focus = "form"
    /\ "contactForm" \in present
    /\ IF "form" \notin wired THEN UNCHANGED vars
       ELSE IF "submitBtn" \in present THEN FormSubmit
       ELSE /\ raised' = raised \cup {"submitBtn"}
            /\ UNCHANGED <<present, wordsAttr, loaded, wired, focus>>
            /\ UNCHANGED <<typingVars, countVars, filterVars, formVars, pageVars, drawerVars>>

LoadedFormTime == loaded /\ focus = "form" /\ FormTime

LoadedFormReset == loaded /\ focus = "form" /\ FormReset

Focuses == {"scroll", "drawer", "typing", "stats", "filter", "form"}

\* Before the handler runs: at most one of the elements is absent, the
\* word list has at most one word, and the visitor exercises one feature.
SetupInit ==
    /\ present \in {Elements} \cup {Elements \ {e} : e \in Elements}
    /\ wordsAttr \in {"valid", "invalid", "missing"}
    /\ loaded = FALSE
    /\ wired = {}
    /\ raised = {}
    /\ focus \in Focuses
    /\ TypingInit
    /\ Len(words) <= 1
    /\ wordsAttr # "valid" => words = <<>>
    /\ scrollY \in ScrollOffsets
    /\ scrollPending = FALSE
    /\ scrollDispatched = FALSE
    /\ navScrolled = FALSE
    /\ backToTopVisible = FALSE
    /\ revealed = {}
    /\ revealObserved = RevealEls
    /\ focus # "scroll" => scrollY = 0
    /\ SectionsIdle
    /\ DrawerIdle
    /\ IF focus = "stats" THEN CountInit /\ statTarget = <<1, "+">> ELSE CountIdle
    /\ IF focus = "filter"
         THEN /\ FilterInit
              /\ btnFilter = [b \in Buttons |-> IF b = 1 THEN "all" ELSE "web"]
              /\ cardCategory = [c \in Cards |-> IF c = 1 THEN "web" ELSE "mobile"]
              /\ btnActive = {1}
              /\ cardHidden = {}
         ELSE FilterIdle
    /\ FormIdle

\* In the specifications of the single features the handler has run on a
\* page that has every element.
SetupIdle ==
    /\ present = Elements
    /\ wordsAttr = "valid"
    /\ loaded = TRUE
    /\ wired = Features
    /\ raised = {}
    /\ focus = "none"

(***************************************************************************)
(* Specifications, one per feature.                                        *)
(***************************************************************************)
InitTyping == TypingInit /\ CountIdle /\ FilterIdle /\ FormIdle /\ ScrollIdle /\ SectionsIdle /\ DrawerIdle /\ SetupIdle
NextTyping == NewTypeWriter \/ TypeTick
SpecTyping == InitTyping /\ [][NextTyping]_vars

\* The typing effect under fair timers: the constructor runs at page load and
\* a pending timeout of type() is eventually run.
NextTypingFair == NewTypeWriter \/ TypeTickResidue
SpecTypingFair ==
    /\ InitTyping
    /\ [][NextTypingFair]_vars
    /\ WF_vars(NewTypeWriter)
    /\ WF_vars(TypeTickResidue)

InitCountUp == TypingIdle /\ CountInit /\ FilterIdle /\ FormIdle /\ ScrollIdle /\ SectionsIdle /\ DrawerIdle /\ SetupIdle
NextCountUp == StatsCallback \/ CountTick
SpecCountUp == InitCountUp /\ [][NextCountUp]_vars

\* The interval timer of a started run keeps firing until it is cleared: a
\* tick that stays due is eventually run.
SpecCountUpFair == InitCountUp /\ [][NextCountUp]_vars /\ WF_vars(CountTick)

InitFilter == TypingIdle /\ CountIdle /\ FilterInit /\ FormIdle /\ ScrollIdle /\ SectionsIdle /\ DrawerIdle /\ SetupIdle
NextFilter == FilterClick
SpecFilter == InitFilter /\ [][NextFilter]_vars

InitForm == TypingIdle /\ CountIdle /\ FilterIdle /\ FormInit /\ ScrollIdle /\ SectionsIdle /\ DrawerIdle /\ SetupIdle
NextForm == FormSubmit \/ FormInput \/ FormReset \/ FormTime
SpecForm == InitForm /\ [][NextForm]_vars

InitScroll == TypingIdle /\ CountIdle /\ FilterIdle /\ FormIdle /\ ScrollInit /\ SectionsIdle /\ DrawerIdle /\ SetupIdle
NextScroll == ScrollTo \/ ScrollEvent \/ RevealCallback
SpecScroll == InitScroll /\ [][NextScroll]_vars

\* The drawer together with scrolling: body overflow is the scroll lock, and
\* scripted scrolling (an anchor link) still moves the viewport under it.
InitDrawer == TypingIdle /\ CountIdle /\ FilterIdle /\ FormIdle /\ ScrollInit /\ SectionsIdle /\ DrawerIdle /\ SetupIdle
NextDrawer == HamburgerClick \/ MenuLinkClick \/ ScrollTo \/ ScrollEvent
SpecDrawer == InitDrawer /\ [][NextDrawer]_vars

InitSections == TypingIdle /\ CountIdle /\ FilterIdle /\ FormIdle /\ ScrollIdle /\ SectionsInit /\ DrawerIdle /\ SetupIdle
NextSections == SectionCallback
SpecSections == InitSections /\ [][NextSections]_vars

\* The page-load handler on a page that may lack an element, and the events
\* after it.
NextSetup ==
    \/ PageLoad
    \/ LoadedScrollTo
    \/ LoadedScrollEvent
    \/ LoadedHamburgerClick
    \/ LoadedMenuLinkClick
    \/ LoadedTypeTick
    \/ LoadedStatsCallback
    \/ LoadedCountTick
    \/ LoadedFilterClick
    \/ LoadedSubmit
    \/ LoadedFormTime
    \/ LoadedFormReset
SpecSetup == SetupInit /\ [][NextSetup]_vars

(***************************************************************************)
(* Properties.                                                             *)
(***************************************************************************)
IsPrefix(p, w) == Len(p) <= Len(w) /\ SubSeq(w, 1, Len(p)) = p

\* C1: while the typing effect runs on a non-empty word list, the visible
\* text (and this.text) is a prefix of the current target word
\* words[wordIndex mod n].
C1_VisibleTextIsPrefix ==
    typerStatus = "running" =>
        /\ Len(words) > 0
        /\ IsPrefix(typedContent, CurrentWord(words, wordIndex))
        /\ text = typedContent

\* Reached: on a later pass through the list, half of a two-letter word is
\* shown while it is being deleted.
C1_Witness ==
    /\ typerStatus = "running"
    /\ wordIndex >= Len(words)
    /\ isDeleting
    /\ Len(typedContent) = 1
    /\ Len(CurrentWord(words, wordIndex)) = 2

\* C2: the target word changes only on the tick that deletes the visible
\* text down to empty, that tick always moves on, and it moves from index i
\* to index (i+1) mod n, so the last word is followed by the first.
C2_WordsInListOrder ==
    [][typerStatus = "running" =>
        LET n == Len(words)
            changes == \/ wordIndex' # wordIndex
                       \/ CurrentWord(words, wordIndex') # CurrentWord(words, wordIndex)
            emptied == isDeleting /\ typedContent' = <<>>
        IN  /\ changes => emptied
            /\ emptied => /\ wordIndex' = wordIndex + 1
                          /\ wordIndex' % n = ((wordIndex % n) + 1) % n
                          /\ ~isDeleting'
       ]_vars

\* Reached: after the last word of a list of two or more, the first word
\* is being typed again.
C2_Witness ==
    /\ typerStatus = "running"
    /\ Len(words) >= 2
    /\ wordIndex = Len(words)
    /\ ~isDeleting
    /\ typedContent # <<>>

\* C3: from one interval tick of a run to its next the number it displays
\* never decreases (for an element with one run, that is the element's
\* text), and the tick that completes the run (step 60) leaves exactly the
\* target displayed and clears the timer.
C3_MonotoneAndExact ==
    [][\A i \in 1..Len(currentStep) :
          (statTimer[i] /\ currentStep'[i] = currentStep[i] + 1) =>
            /\ statShown[i] # <<>> => statShown'[i][1] >= statShown[i][1]
            /\ (Len(currentStep) = 1 /\ statContent # <<>>) =>
                   statContent'[1] >= statContent[1]
            /\ statContent' = statShown'[i]
            /\ currentStep'[i] = 60 => /\ statContent'[1] = statTarget[1]
                                       /\ ~statTimer'[i]
            /\ currentStep'[i] < 60 => statTimer'[i]
      ]_vars

\* Reached: a run with target 0 has completed and shows 0.
C3_Witness ==
    /\ Len(currentStep) = 1
    /\ currentStep[1] = 60
    /\ ~statTimer[1]
    /\ statTarget[1] = 0
    /\ statContent = <<0, statTarget[2]>>

\* C4: after every tick of a count-up run the displayed number is at most
\* the element's target.
C4_NeverExceedsTarget ==
    statContent # <<>> => statContent[1] <= statTarget[1]

\* Reached: a negative target, where the rounded product lies above the
\* target and the clamp decides what is shown, in the middle of the run.
C4_Witness ==
    /\ Len(currentStep) = 1
    /\ statTimer[1]
    /\ currentStep[1] = 1
    /\ statTarget[1] < 0
    /\ statContent # <<>>
    /\ statContent[1] = statTarget[1]

\* C5: after a click on a control with filter value v, a card is visible
\* (not hidden) iff v is "all" or the card's category equals v, whatever
\* the hidden flags were before.
C5_FilterShowsMatching ==
    lastClicked # 0 =>
        LET v == btnFilter[lastClicked]
        IN  \A c \in Cards :
                (c \notin cardHidden) <=> (v = "all" \/ cardCategory[c] = v)

\* Reached: a click on a "web" control left one card shown and one hidden.
C5_Witness ==
    /\ lastClicked # 0
    /\ btnFilter[lastClicked] = "web"
    /\ \E c \in Cards : c \in cardHidden
    /\ \E c \in Cards : c \notin cardHidden /\ cardCategory[c] = "web"

\* C6: at most one filter control is active, and once a control has been
\* clicked the active control is exactly the one clicked last.
C6_OneActiveFilter ==
    /\ Cardinality(btnActive) <= 1
    /\ lastClicked # 0 => btnActive = {lastClicked}

\* Reached: the second control was clicked and is the active one.
C6_Witness ==
    /\ lastClicked = 2
    /\ btnActive = {2}

\* C7: a submit event leaves the submit control disabled in the same step,
\* the control stays disabled until 2500ms have passed since that
\* submission, and it is enabled again once they have.
C7_DisabledForResetDelay ==
    /\ lastFormEvent = "submit" => btnDisabled
    /\ (sinceSubmit >= 0 /\ sinceSubmit < 2500) => btnDisabled
    /\ sinceSubmit > 2500 => ~btnDisabled

\* C8: at page load and after every scroll event the navbar has "scrolled"
\* iff the scroll offset is greater than 50.
C8_NavScrolledIffPast50 ==
    ~scrollPending => (navScrolled <=> scrollY > 50)

\* Reached: a scroll event was handled at offset exactly 50 and the navbar
\* is not "scrolled".
C8_Witness ==
    /\ scrollDispatched
    /\ ~scrollPending
    /\ scrollY = 50
    /\ ~navScrolled

\* C9: at most one nav link is active, and once an intersecting entry has
\* been processed the active links are exactly the links whose href is
\* '#' + the id of the last intersecting section.
C9_OneActiveLink ==
    /\ Cardinality(linkActive) <= 1
    /\ lastIntersecting # NoSection =>
           \A l \in Links :
               l \in linkActive <=> linkHref[l] = <<"#", lastIntersecting>>

\* Reached: a section with a nav link intersected last and its link is the
\* active one.
C9_Witness ==
    /\ lastIntersecting # NoSection
    /\ \E l \in Links : linkActive = {l} /\ linkHref[l] = <<"#", lastIntersecting>>

\* C10: a revealed element stays revealed in every later step and is not
\* observed any more, so it goes from not revealed to revealed once at most.
C10_RevealOnce ==
    [][\A e \in RevealEls :
          e \in revealed => /\ e \in revealed'
                            /\ e \notin revealObserved
                            /\ e \notin revealObserved'
      ]_vars

\* Reached: every element is revealed and scroll events went on.
C10_Witness ==
    /\ revealed = RevealEls
    /\ revealObserved = {}
    /\ scrollDispatched
    /\ scrollPending

\* C13: starting from the closed drawer, the three drawer flags agree after
\* every click; the menu is open iff an odd number of hamburger clicks came
\* since the last menu-link click (each toggle click flips all three), and a
\* menu-link click leaves all three off.
C13_DrawerFlagsAgree ==
    /\ menuOpen <=> hamburgerActive
    /\ menuOpen <=> (bodyOverflow = "hidden")
    /\ ~menuOpen <=> (bodyOverflow = "")
    /\ menuOpen <=> (togglesSinceClose % 2 = 1)
    /\ lastDrawerEvent = "link" => ~menuOpen

\* Reached: two hamburger clicks in a row opened the drawer and closed it
\* again.
C13_Witness ==
    /\ lastDrawerEvent = "toggle"
    /\ togglesSinceClose = 2
    /\ ~menuOpen /\ ~hamburgerActive /\ bodyOverflow = ""

\* C14: once a scroll event has been handled, and no newer one is waiting,
\* the back-to-top control is visible iff the scroll offset is greater than
\* 500.
C14_BackToTopIffPast500 ==
    (scrollDispatched /\ ~scrollPending) => (backToTopVisible <=> scrollY > 500)

\* Reached: a scroll event was handled at offset exactly 500 and the
\* control is not visible.
C14_Witness ==
    /\ scrollDispatched
    /\ ~scrollPending
    /\ scrollY = 500
    /\ ~backToTopVisible

\* C15: on every call of type() the delay scheduled is 2000 exactly when
\* the call completed the word while typing, 400 exactly when it emptied the
\* text while deleting, otherwise 100 after a typing call and 50 after a
\* deleting call; and a call that is neither pause changes the visible text
\* by exactly one character.
C15_DelaysFollowCycle ==
    [][typerStatus' = "running" =>
        LET completed == ~isDeleting /\ typedContent' = CurrentWord(words, wordIndex)
            emptied == isDeleting /\ typedContent' = <<>>
        IN  /\ typeDelay' = 2000 <=> completed
            /\ typeDelay' = 400 <=> emptied
            /\ (~completed /\ ~emptied) =>
                  /\ typeDelay' = IF isDeleting THEN 50 ELSE 100
                  /\ \/ Len(typedContent') = Len(typedContent) + 1
                     \/ Len(typedContent') = Len(typedContent) - 1
       ]_vars

\* Reached: in the middle of deleting a word, with the 50ms delay pending.
C15_Witness ==
    /\ typerStatus = "running"
    /\ isDeleting
    /\ typeDelay = 50
    /\ Len(typedContent) = 1

\* C17: once a submission has happened and no reset timeout is pending, the
\* submit control shows the label it had before the first submission, has
\* its default background, and is enabled.
C17_RestoredAfterResets ==
    (sinceSubmit >= 0 /\ resetTimers = <<>>) =>
        /\ btnLabel = MarkupLabel
        /\ btnBackground = ""
        /\ ~btnDisabled

\* C16: at most one count-up run is ever started for the element.
C16_AtMostOneRun ==
    Len(currentStep) <= 1

\* C18: a run never goes past step 60, its timer is set exactly while it is
\* below step 60, a run whose timer is cleared does not tick or write again,
\* and under fair firing of the timer every started run reaches step 60 with
\* its timer cleared.
C18_RunsTerminate ==
    /\ [](\A i \in 1..Len(currentStep) :
             /\ currentStep[i] <= 60
             /\ statTimer[i] <=> currentStep[i] < 60)
    /\ [][\A i \in 1..Len(currentStep) :
             ~statTimer[i] => /\ currentStep'[i] = currentStep[i]
                              /\ statShown'[i] = statShown[i]
                              /\ ~statTimer'[i]
         ]_vars
    /\ \A i \in 1..MaxEntries :
          (Len(currentStep) >= i) ~>
              (Len(currentStep) >= i /\ currentStep[i] = 60 /\ ~statTimer[i])

\* Reached: a run has done its 60 ticks and its timer is cleared.
C18_Witness ==
    /\ Len(currentStep) >= 1
    /\ currentStep[1] = 60
    /\ ~statTimer[1]
    /\ statShown[1] = <<statTarget[1], statTarget[2]>>
    /\ ~statObserved

\* C19: for a non-empty word list every call of type() leaves one next call
\* scheduled, and under fair firing of the timers every word of the list is
\* fully displayed (typed out, with the 2000ms pause pending) again and again.
C19_TypingNeverStops ==
    /\ [][typerStatus' = "running" => typeDelay' > 0]_vars
    /\ [](Len(words) > 0 => <>(typerStatus = "running"))
    /\ \A i \in 1..MaxWords :
          []<>(\/ Len(words) < i
               \/ /\ typerStatus = "running"
                  /\ wordIndex % Len(words) = i - 1
                  /\ isDeleting
                  /\ typedContent = words[i]
                  /\ typeDelay = 2000)

\* Reached: the last word of a list of two or more is fully displayed.
C19_Witness ==
    /\ typerStatus = "running"
    /\ Len(words) >= 2
    /\ wordIndex % Len(words) = Len(words) - 1
    /\ isDeleting
    /\ typedContent = words[Len(words)]
    /\ typeDelay = 2000

TypingErrors == {"parse", "type"}

\* C11: after page load on a page whose word list is valid and not empty,
\* whichever element is absent, no error has been raised at setup or by a
\* later event, and every feature that uses none of the absent elements is
\* wired.
C11_AbsentElementSkipsOnlyItsFeature ==
    (loaded /\ wordsAttr = "valid" /\ Len(words) > 0) =>
        /\ raised = {}
        /\ \A f \in Features : Uses(f) \cap (Elements \ present) = {} => f \in wired

\* C12: with a word list that parses, the empty list included, neither the
\* construction of the TypeWriter at page load nor a later call of type()
\* raises an error.
C12_OnlyParseFails ==
    wordsAttr = "valid" => (raised \cap TypingErrors = {} /\ typerStatus # "threw")

\* C20: once the typing section has raised an error at page load, the
\* features wired are the ones set up before it (navbar, drawer with its two
\* elements, section highlight, scroll reveal) and stay so, and no event
\* changes the state of the count-up, the back-to-top button, the filter or
\* the form.
C20_TypingErrorStopsSetup ==
    /\ [](loaded /\ raised \cap TypingErrors # {} =>
            /\ raised \subseteq TypingErrors
            /\ wired = {f \in {"navbar", "drawer", "sections", "reveal"} :
                            Uses(f) \subseteq present})
    /\ [][loaded /\ raised \cap TypingErrors # {} =>
            /\ wired' = wired
            /\ UNCHANGED <<countVars, filterVars, formVars, backToTopVisible>>]_vars

\* Reached: setup stopped at the typing section, and a scroll event past
\* 500 has since been handled by the navbar listener alone.
C20_Witness ==
    /\ loaded
    /\ raised \cap TypingErrors # {}
    /\ "backToTopBtn" \in present
    /\ scrollDispatched
    /\ ~scrollPending
    /\ scrollY > 500
    /\ navScrolled
    /\ ~backToTopVisible

=============================================================================
